---------------------------- MODULE Spec2Model ----------------------------
(***************************************************************************)
(* A model of futzman: the manual-page registry (Database), its persisted  *)
(* text form, the section relocation (transform), the concurrent           *)
(* package-contents fetcher (PkgContents::run) feeding the mkdb command,   *)
(* the analysis commands (simulate, conflicts) and the audit command       *)
(* (kinds) with the document scanner (find_xrefs).                         *)
(*                                                                         *)
(* Strings are sequences of character codes (ASCII), so that comparison,   *)
(* splitting and formatting are computed as the code computes them.        *)
(***************************************************************************)
EXTENDS Integers, Sequences, FiniteSets, TLC

VARIABLES
    \* ---- the registry commands (load / insert / transform / persist)
    src,        \* the lines the file database.txt was written from (history)
    file,       \* the text of database.txt
    phase,      \* position of the registry command
    db,         \* Database.records of the registry being built or loaded
    newdb,      \* Database.records of the derived registry (transform)
    out,        \* the text printed by the persist loop (stdout of mkdb)
    last,       \* the last registry operation and its result
    ninserts,   \* number of successful and failed insert calls so far
    loaded,     \* TRUE once db came from Database::load
    \* ---- the fetcher and the mkdb consumer
    repo,       \* which repository pkgrepo reads (its packages' contents)
    nthr,       \* the worker count given to run
    work,       \* the stack of groups as appended before run (history)
    bad,        \* the package for which pkgrepo_contents fails (0: none)
    q,          \* PkgContents.q: the stack of groups still to be fetched
    lock,       \* the holder of the mutex around q (0: free)
    wpc,        \* wpc[w]: position of worker w
    wgrp,       \* wgrp[w]: the group worker w popped
    wres,       \* wres[w]: the results worker w collected so far
    ntx,        \* live send handles of the channel
    chan,       \* packets of senders blocked in the rendezvous
    rpc,        \* position of the coordinator thread "r"
    nspawned,   \* workers spawned so far
    njoin,      \* worker handles still to be joined
    cpc,        \* position of the consumer (main thread)
    cur,        \* the batch the consumer received last
    received,   \* the batches received so far (history)
    exit,       \* "running", or how the process ended
    pops,       \* the groups popped so far, each with its worker (history)
    \* ---- the analysis commands (simulate / conflicts)
    chain,      \* the registries derived by further applications of transform
    obscured,   \* the pages simulate reported as obscured (its stdout)
    report,     \* the entries conflicts printed (its stdout)
    \* ---- the audit command (kinds) and the scanner it runs
    docs,       \* the documents of the registry's file records, in order
    kpc,        \* position of the audit command
    di,         \* index of the document being audited
    li,         \* index of the next line of that document
    st,         \* the scanner's State
    xout,       \* the cross-references the scan collected so far
    entered,    \* the index of the line that took the scan to Content (0: none)
    diags,      \* the diagnostics the scan wrote (stderr)
    printed     \* the lines the audit printed about cross-references

regvars == <<src, file, phase, newdb, last, ninserts, loaded>>
fetchvars == <<repo, nthr, work, bad, q, lock, wpc, wgrp, wres, ntx, chan, rpc,
               nspawned, njoin, cpc, cur, received, exit, pops>>
anavars == <<chain, obscured, report>>
xvars == <<docs, kpc, di, li, st, xout, entered, diags, printed>>
vars == <<regvars, fetchvars, anavars, xvars, db, out>>

----------------------------------------------------------------------------
(* Bounds of the model. *)

MaxRows == 2        \* rows of database.txt
MaxInserts == 2     \* insert calls of one run of the registry commands
MaxThr == 2         \* worker threads
MaxPkgs == 2        \* packages listed by the repository
MaxAnaRows == 3     \* rows of the database.txt the analysis commands load
MaxLines == 3       \* lines of the first document the audit reads

----------------------------------------------------------------------------
(* Characters and strings. *)

TAB == 9
LF == 10
CR == 13

Min(S) == CHOOSE x \in S : \A y \in S : x <= y

\* Ordering of str (Ord for str): lexicographic by byte; -1, 0 or 1.
CmpStr(a, b) ==
    LET n == IF Len(a) < Len(b) THEN Len(a) ELSE Len(b)
        diff == {i \in 1..n : a[i] # b[i]}
    IN  IF diff = {}
        THEN IF Len(a) < Len(b) THEN -1 ELSE IF Len(a) > Len(b) THEN 1 ELSE 0
        ELSE IF a[Min(diff)] < b[Min(diff)] THEN -1 ELSE 1

\* Option<String>
None == <<>>
Some(s) == <<s>>

\* The strings the model draws sections, pages and owners from.
s1M == <<49, 77>>           \* "1M"
s8 == <<56>>                \* "8"
s3C == <<51, 67>>           \* "3C"
s4FS == <<52, 70, 83>>      \* "4FS"
s5FS == <<53, 70, 83>>      \* "5FS"
s7FS == <<55, 70, 83>>      \* "7FS"
sEmpty == <<>>              \* ""
pLs == <<108, 115>>         \* "ls"
pCp == <<99, 112>>          \* "cp"
oA == <<65>>                \* "A"
oB == <<66>>                \* "B"
kL == <<108>>               \* "l"
kF == <<102>>               \* "f"

----------------------------------------------------------------------------
(* Record and Database. *)

Record(link, sect, page, pkg, orig) ==
    [link |-> link, sect |-> sect, page |-> page, pkg |-> pkg,
     orig_sect |-> orig]

\* The comparator given to sort_by: by sect, then by page.
RecCmp(a, b) ==
    IF CmpStr(a.sect, b.sect) = 0 THEN CmpStr(a.page, b.page)
    ELSE CmpStr(a.sect, b.sect)

\* Vec::sort_by is a stable sort: the element at index i goes behind the
\* elements that compare less than it and the equal ones that precede it.
sort_by(s) ==
    LET rank(i) == Cardinality({j \in 1..Len(s) :
                       \/ RecCmp(s[j], s[i]) = -1
                       \/ (RecCmp(s[j], s[i]) = 0 /\ j < i)})
    IN  [k \in 1..Len(s) |-> s[CHOOSE i \in 1..Len(s) : rank(i) = k - 1]]

\* Database::insert with a conflict check that also compares the owner.
insert_owner(records, link, sect, page, pkg) ==
    LET nr == Record(link, sect, page, pkg, None)
    IN  IF \E i \in 1..Len(records) :
               /\ records[i].sect = nr.sect
               /\ records[i].page = nr.page
               /\ records[i].pkg = nr.pkg
        THEN [ok |-> FALSE, records |-> records]
        ELSE [ok |-> TRUE, records |-> sort_by(Append(records, nr))]

\* Database::insert that pushes the new record before it looks for a conflict.
insert_pushfirst(records, link, sect, page, pkg) ==
    LET nr == Record(link, sect, page, pkg, None)
    IN  IF \E i \in 1..Len(records) :
               records[i].sect = nr.sect /\ records[i].page = nr.page
        THEN [ok |-> FALSE, records |-> Append(records, nr)]
        ELSE [ok |-> TRUE, records |-> sort_by(Append(records, nr))]

\* Database::insert without the sort.
insert_nosort(records, link, sect, page, pkg) ==
    LET nr == Record(link, sect, page, pkg, None)
    IN  IF \E i \in 1..Len(records) :
               records[i].sect = nr.sect /\ records[i].page = nr.page
        THEN [ok |-> FALSE, records |-> records]
        ELSE [ok |-> TRUE, records |-> Append(records, nr)]

\* Database::insert: Err (records untouched) on a (sect, page) conflict,
\* else push and sort.
insert(records, link, sect, page, pkg) ==
    LET nr == Record(link, sect, page, pkg, None)
    IN  IF \E i \in 1..Len(records) :
               records[i].sect = nr.sect /\ records[i].page = nr.page
        THEN [ok |-> FALSE, records |-> records]
        ELSE [ok |-> TRUE, records |-> sort_by(Append(records, nr))]

\* str::split(c): the pieces between the occurrences of c (at least one).
RECURSIVE Split(_, _)
Split(s, c) ==
    LET at == {i \in 1..Len(s) : s[i] = c}
    IN  IF at = {} THEN <<s>>
        ELSE <<SubSeq(s, 1, Min(at) - 1)>>
                 \o Split(SubSeq(s, Min(at) + 1, Len(s)), c)

\* str::lines(): lines end at "\n" or "\r\n"; the terminator is not part of
\* the line; a final line needs no terminator.
RECURSIVE Lines(_)
Lines(s) ==
    LET at == {i \in 1..Len(s) : s[i] = LF}
    IN  IF s = <<>> THEN <<>>
        ELSE IF at = {} THEN <<s>>
        ELSE LET raw == SubSeq(s, 1, Min(at) - 1)
                 line == IF raw # <<>> /\ raw[Len(raw)] = CR
                         THEN SubSeq(raw, 1, Len(raw) - 1) ELSE raw
             IN  <<line>> \o Lines(SubSeq(s, Min(at) + 1, Len(s)))

LoadErr == [ok |-> FALSE, records |-> <<>>]

\* The loop of Database::load over the lines still to be read: a row that
\* has not four fields, or whose first is neither "l" nor "f", is an error.
RECURSIVE LoadLines(_, _)
LoadLines(ls, records) ==
    IF ls = <<>> THEN [ok |-> TRUE, records |-> records]
    ELSE LET t == Split(Head(ls), TAB)
         IN  IF Len(t) # 4 THEN LoadErr
             ELSE IF t[1] = kL
             THEN LoadLines(Tail(ls),
                            Append(records, Record(TRUE, t[2], t[3], t[4], None)))
             ELSE IF t[1] = kF
             THEN LoadLines(Tail(ls),
                            Append(records, Record(FALSE, t[2], t[3], t[4], None)))
             ELSE LoadErr

\* Database::load that skips the rows it cannot read.
load_skip(text) ==
    LET readable(l) == Len(Split(l, TAB)) = 4 /\ Split(l, TAB)[1] \in {kL, kF}
    IN  LoadLines(SelectSeq(Lines(text), readable), <<>>)

\* Database::load that sorts what it read.
load_sorted(text) ==
    LET r == LoadLines(Lines(text), <<>>)
    IN  [ok |-> r.ok, records |-> sort_by(r.records)]

\* Database::load: all rows, in file order, or Err.
load(text) == LoadLines(Lines(text), <<>>)

\* The line println! writes for one record in the persist loop of mkdb.
FormatRow(rec) ==
    (IF rec.link THEN kL ELSE kF) \o <<TAB>> \o rec.sect \o <<TAB>>
        \o rec.page \o <<TAB>> \o rec.pkg \o <<LF>>

\* The persist loop of mkdb: one line per record, in the order of records.
RECURSIVE persist(_)
persist(records) ==
    IF records = <<>> THEN <<>>
    ELSE FormatRow(Head(records)) \o persist(Tail(records))

\* Database::lookup: the first record at (sect, page), or None.
lookup(records, sect, page) ==
    LET at == {i \in 1..Len(records) :
                  records[i].page = page /\ records[i].sect = sect}
    IN  IF at = {} THEN None ELSE Some(records[Min(at)])

\* The relocation of one record in Database::transform. Undefined (the
\* unwrap of chars().next() panics) for a section with no characters.
Relocate(r) ==
    IF r.sect = s1M
    THEN Record(r.link, s8, r.page, r.pkg, Some(s1M))
    ELSE LET s == Head(r.sect)
             sub == Tail(r.sect)
         IN  IF s = 52 THEN Record(r.link, <<53>> \o sub, r.page, r.pkg, Some(r.sect))
             ELSE IF s = 53 THEN Record(r.link, <<55>> \o sub, r.page, r.pkg, Some(r.sect))
             ELSE IF s = 55 THEN Record(r.link, <<52>> \o sub, r.page, r.pkg, Some(r.sect))
             ELSE r

\* Database::transform: panics on a record whose section is empty, else the
\* relocated records, sorted.
transform(records) ==
    IF \E i \in 1..Len(records) : records[i].sect = sEmpty
    THEN [ok |-> FALSE, records |-> <<>>]
    ELSE [ok |-> TRUE,
          records |-> sort_by([i \in 1..Len(records) |-> Relocate(records[i])])]

----------------------------------------------------------------------------
(* The registry commands: a registry starts empty (Database::default) or   *)
(* is loaded from database.txt; records are inserted; the registry is      *)
(* transformed or persisted.                                               *)

\* A line of database.txt: kind, section, page, owner, tab-separated.
MkLine(k, s, p, o) == k \o <<TAB>> \o s \o <<TAB>> \o p \o <<TAB>> \o o

\* Rows of the file format, with the sections the relocation tells apart.
RowLines ==
    { MkLine(kF, s1M, pLs, oA), MkLine(kL, s8, pLs, oB),
      MkLine(kF, s4FS, pCp, oA), MkLine(kL, s5FS, pCp, oB),
      MkLine(kF, s7FS, pCp, oA), MkLine(kF, s3C, pLs, oA),
      MkLine(kF, sEmpty, pLs, oA) }

\* Lines that are no row: a blank line, an upper-case kind, a two-letter
\* kind, three fields, five fields.
JunkLines ==
    { <<>>, MkLine(<<76>>, s3C, pLs, oA), MkLine(<<108, 102>>, s3C, pCp, oA),
      kF \o <<TAB>> \o s1M \o <<TAB>> \o pLs,
      MkLine(kF, s1M, pLs, oA) \o <<TAB>> \o oB }

FileLines == RowLines \cup JunkLines

\* The line terminators a text file may use.
Eols == {<<LF>>, <<CR, LF>>}

RECURSIVE Render(_, _)
Render(ls, eol) ==
    IF ls = <<>> THEN <<>> ELSE Head(ls) \o eol \o Render(Tail(ls), eol)

\* The arguments the model gives to insert.
InsertArgs ==
    { <<FALSE, s1M, pLs, oA>>, <<TRUE, s1M, pLs, oB>>,
      <<FALSE, s3C, pCp, oA>>, <<FALSE, s1M, pCp, oB>> }

NoOp == [op |-> "none", ok |-> TRUE, arg |-> <<>>]

\* The fetcher at rest (the registry commands other than mkdb do not run it).
FetchIdle ==
    /\ repo = "none" /\ nthr = 0 /\ work = <<>> /\ bad = 0 /\ q = <<>> /\ lock = 0
    /\ wpc = <<>> /\ wgrp = <<>> /\ wres = <<>> /\ ntx = 0 /\ chan = {}
    /\ rpc = "none" /\ nspawned = 0 /\ njoin = 0 /\ cpc = "none"
    /\ cur = <<>> /\ received = <<>> /\ exit = "running" /\ pops = <<>>

\* The analysis commands at rest.
AnaIdle == chain = <<>> /\ obscured = <<>> /\ report = <<>>

\* The audit command at rest.
XIdle ==
    /\ docs = <<>> /\ kpc = "none" /\ di = 0 /\ li = 0 /\ st = "Rest"
    /\ xout = <<>> /\ entered = 0 /\ diags = <<>> /\ printed = <<>>

InitReg ==
    /\ \E n \in 0..MaxRows : src \in [1..n -> FileLines]
    /\ \E eol \in Eols : file = Render(src, eol)
    /\ phase = "open"
    /\ db = <<>>
    /\ newdb = <<>>
    /\ out = <<>>
    /\ last = NoOp
    /\ ninserts = 0
    /\ loaded = FALSE
    /\ FetchIdle
    /\ AnaIdle
    /\ XIdle

\* let db = Database::load("database.txt")?;
RegLoad ==
    /\ phase = "open" /\ ~loaded /\ ninserts = 0
    /\ LET r == load(file)
       IN  /\ db' = r.records
           /\ phase' = IF r.ok THEN "open" ELSE "failed"
           /\ loaded' = r.ok
           /\ last' = [op |-> "load", ok |-> r.ok, arg |-> <<>>]
    /\ UNCHANGED <<src, file, newdb, out, ninserts, fetchvars, anavars, xvars>>

\* db.insert(link, sect, page, pkg)?;
RegInsert(a) ==
    /\ phase = "open" /\ ninserts < MaxInserts
    /\ LET r == insert(db, a[1], a[2], a[3], a[4])
       IN  /\ db' = r.records
           /\ phase' = IF r.ok THEN "open" ELSE "failed"
           /\ last' = [op |-> "insert", ok |-> r.ok, arg |-> a]
    /\ ninserts' = ninserts + 1
    /\ UNCHANGED <<src, file, newdb, out, loaded, fetchvars, anavars, xvars>>

\* let newdb = db.transform();
RegTransform ==
    /\ phase = "open"
    /\ LET r == transform(db)
       IN  /\ newdb' = r.records
           /\ phase' = IF r.ok THEN "transformed" ELSE "panicked"
           /\ last' = [op |-> "transform", ok |-> r.ok, arg |-> <<>>]
    /\ UNCHANGED <<src, file, db, out, ninserts, loaded, fetchvars, anavars, xvars>>

\* for rec in db.records { println!(...) }
RegPersist ==
    /\ phase = "open"
    /\ out' = persist(db)
    /\ phase' = "persisted"
    /\ last' = [op |-> "persist", ok |-> TRUE, arg |-> <<>>]
    /\ UNCHANGED <<src, file, db, newdb, ninserts, loaded, fetchvars, anavars, xvars>>

NextReg ==
    \/ RegLoad
    \/ \E a \in InsertArgs : RegInsert(a)
    \/ RegTransform
    \/ RegPersist

SpecReg == InitReg /\ [][NextReg]_vars

----------------------------------------------------------------------------
(* The mkdb command: PkgContents::run with its workers and coordinator,    *)
(* and the main thread that receives the batches, builds the registry and  *)
(* persists it.                                                            *)

\* The repositories the model reads: in "clean" every package ships its own
\* manual page; in "clash" every package but the first also links the first
\* package's page.
Repos == {"clean", "clash"}

\* The manual page file of package p, as path_to_man reads its path.
ManKey(p) ==
    <<IF ((p - 1) \div 2) % 2 = 0 THEN s1M ELSE s3C,
      IF p % 2 = 1 THEN pLs ELSE pCp>>

\* Package::name()
PkgName(p) == <<64 + p>>

\* An Action of a manifest: File or Link with the class of its path ("man":
\* under usr/share/man/, with the section and page path_to_man yields;
\* "nonman": elsewhere; "weird": under usr/man), or another action.
Act(kind, cls, key) == [kind |-> kind, cls |-> cls, sect |-> key[1], page |-> key[2]]

\* What pkgrepo_contents yields for package p of repository r.
Contents(r, p) ==
    <<Act("other", "nonman", <<sEmpty, sEmpty>>),
      Act("file", "nonman", <<sEmpty, sEmpty>>),
      Act("file", "man", ManKey(p))>>
    \o (IF r = "clash" /\ p > 1 THEN <<Act("link", "man", ManKey(1))>> ELSE <<>>)

\* The groupings of packages 1..n into consecutive non-empty groups; main
\* appends one group per package, append takes any Vec of items.
Groupings(n) ==
    { g \in UNION { [1..k -> SUBSET (1..n)] : k \in 0..n } :
        /\ \A i \in DOMAIN g : g[i] # {}
        /\ UNION { g[i] : i \in DOMAIN g } = 1..n
        /\ \A i, j \in DOMAIN g : i < j => \A a \in g[i], b \in g[j] : a < b }

\* The items of a set of consecutive packages, in order.
RECURSIVE Items(_)
Items(S) == IF S = {} THEN <<>> ELSE <<Min(S)>> \o Items(S \ {Min(S)})

Workers == 1..nthr

InitFetch ==
    /\ repo \in Repos
    /\ nthr \in 1..MaxThr
    /\ \E n \in 0..MaxPkgs :
          /\ \E g \in Groupings(n) : work = [i \in DOMAIN g |-> Items(g[i])]
          /\ bad \in 0..n
    /\ q = work
    /\ lock = 0
    /\ wpc = [w \in 1..nthr |-> "unspawned"]
    /\ wgrp = [w \in 1..nthr |-> <<>>]
    /\ wres = [w \in 1..nthr |-> <<>>]
    /\ ntx = 1
    /\ chan = {}
    /\ rpc = "spawn"
    /\ nspawned = 0
    /\ njoin = 0
    /\ cpc = "recv"
    /\ cur = <<>>
    /\ received = <<>>
    /\ exit = "running"
    /\ db = <<>>
    /\ out = <<>>
    /\ src = <<>> /\ file = <<>> /\ phase = "mkdb" /\ newdb = <<>>
    /\ last = NoOp /\ ninserts = 0 /\ loaded = FALSE
    /\ pops = <<>>
    /\ AnaIdle
    /\ XIdle

\* Closed as it would be if the workers' clones of tx did not count.
Closed_own == rpc \notin {"spawn", "drop"} /\ chan = {}

\* The channel reports closed to recv: no send handle is left and no
\* sender waits with a packet.
Closed == ntx = 0 /\ chan = {}

\* ---- the coordinator thread "r"

\* let tx = tx.clone(); thread::Builder::new().name(n).spawn(...)
RSpawn ==
    /\ exit = "running" /\ rpc = "spawn"
    /\ nspawned' = nspawned + 1
    /\ wpc' = [wpc EXCEPT ![nspawned + 1] = "lock"]
    /\ ntx' = ntx + 1
    /\ rpc' = IF nspawned + 1 = nthr THEN "drop" ELSE "spawn"
    /\ UNCHANGED <<repo, nthr, work, bad, q, lock, wgrp, wres, chan, njoin,
                   cpc, cur, received, exit, db, out, regvars, pops,
                   anavars, xvars>>

\* The coordinator going on to join without drop(tx).
RDrop_keep ==
    /\ exit = "running" /\ rpc = "drop"
    /\ njoin' = nthr
    /\ rpc' = "join"
    /\ UNCHANGED <<repo, nthr, work, bad, q, lock, wpc, wgrp, wres, ntx, chan,
                   nspawned, cpc, cur, received, exit, db, out, regvars, pops,
                   anavars, xvars>>

\* drop(tx);
RDrop ==
    /\ exit = "running" /\ rpc = "drop"
    /\ ntx' = ntx - 1
    /\ njoin' = nthr
    /\ rpc' = "join"
    /\ UNCHANGED <<repo, nthr, work, bad, q, lock, wpc, wgrp, wres, chan,
                   nspawned, cpc, cur, received, exit, db, out, regvars, pops,
                   anavars, xvars>>

\* while let Some(t) = threads.pop() { t.join().expect("join"); }
RJoin ==
    /\ exit = "running" /\ rpc = "join"
    /\ wpc[njoin] = "done"
    /\ njoin' = njoin - 1
    /\ rpc' = IF njoin = 1 THEN "done" ELSE "join"
    /\ UNCHANGED <<repo, nthr, work, bad, q, lock, wpc, wgrp, wres, ntx, chan,
                   nspawned, cpc, cur, received, exit, db, out, regvars, pops,
                   anavars, xvars>>

\* ---- a worker thread

\* A lock that is taken without waiting for its holder.
WLock_barge(w) ==
    /\ exit = "running" /\ wpc[w] = "lock"
    /\ lock' = w
    /\ wpc' = [wpc EXCEPT ![w] = "pop"]
    /\ UNCHANGED <<repo, nthr, work, bad, q, wgrp, wres, ntx, chan, rpc,
                   nspawned, njoin, cpc, cur, received, exit, db, out, regvars, pops,
                   anavars, xvars>>

\* q.lock().unwrap()
WLock(w) ==
    /\ exit = "running" /\ wpc[w] = "lock"
    /\ lock = 0
    /\ lock' = w
    /\ wpc' = [wpc EXCEPT ![w] = "pop"]
    /\ UNCHANGED <<repo, nthr, work, bad, q, wgrp, wres, ntx, chan, rpc,
                   nspawned, njoin, cpc, cur, received, exit, db, out, regvars, pops,
                   anavars, xvars>>

\* A pop that leaves the group on the stack (last() for pop()).
WPop_peek(w) ==
    /\ exit = "running" /\ wpc[w] = "pop"
    /\ lock' = 0
    /\ IF q # <<>>
       THEN /\ wgrp' = [wgrp EXCEPT ![w] = q[Len(q)]]
            /\ q' = q
            /\ wres' = [wres EXCEPT ![w] = <<>>]
            /\ wpc' = [wpc EXCEPT ![w] = IF q[Len(q)] = <<>> THEN "send" ELSE "fetch"]
            /\ pops' = Append(pops, [w |-> w, g |-> q[Len(q)]])
       ELSE /\ wpc' = [wpc EXCEPT ![w] = "exit"]
            /\ UNCHANGED <<q, wgrp, wres, pops>>
    /\ UNCHANGED <<repo, nthr, work, bad, ntx, chan, rpc, nspawned, njoin,
                   cpc, cur, received, exit, db, out, regvars,
                   anavars, xvars>>

\* .pop(): Some(g) and go on, or None and break; the guard is dropped.
WPop(w) ==
    /\ exit = "running" /\ wpc[w] = "pop"
    /\ lock' = 0
    /\ IF q # <<>>
       THEN /\ wgrp' = [wgrp EXCEPT ![w] = q[Len(q)]]
            /\ q' = SubSeq(q, 1, Len(q) - 1)
            /\ wres' = [wres EXCEPT ![w] = <<>>]
            /\ wpc' = [wpc EXCEPT ![w] = IF q[Len(q)] = <<>> THEN "send" ELSE "fetch"]
            /\ pops' = Append(pops, [w |-> w, g |-> q[Len(q)]])
       ELSE /\ wpc' = [wpc EXCEPT ![w] = "exit"]
            /\ UNCHANGED <<q, wgrp, wres, pops>>
    /\ UNCHANGED <<repo, nthr, work, bad, ntx, chan, rpc, nspawned, njoin,
                   cpc, cur, received, exit, db, out, regvars,
                   anavars, xvars>>

\* A worker that gives up the group whose item fails and pops the next one.
WFetch_skip(w) ==
    /\ exit = "running" /\ wpc[w] = "fetch"
    /\ LET i == wgrp[w][Len(wres[w]) + 1]
       IN  IF i = bad
           THEN /\ wpc' = [wpc EXCEPT ![w] = "lock"]
                /\ UNCHANGED <<wres, exit>>
           ELSE /\ wres' = [wres EXCEPT ![w] =
                               Append(@, [pkg |-> i, contents |-> Contents(repo, i)])]
                /\ wpc' = [wpc EXCEPT ![w] =
                              IF Len(wres[w]) + 1 = Len(wgrp[w]) THEN "send" ELSE "fetch"]
                /\ UNCHANGED exit
    /\ UNCHANGED <<repo, nthr, work, bad, q, lock, wgrp, ntx, chan, rpc,
                   nspawned, njoin, cpc, cur, received, db, out, regvars, pops,
                   anavars, xvars>>

\* A worker that sends after the first item of its group.
WFetch_first(w) ==
    /\ exit = "running" /\ wpc[w] = "fetch"
    /\ LET i == wgrp[w][Len(wres[w]) + 1]
       IN  IF i = bad
           THEN /\ exit' = "killed"
                /\ UNCHANGED <<wres, wpc>>
           ELSE /\ wres' = [wres EXCEPT ![w] =
                               Append(@, [pkg |-> i, contents |-> Contents(repo, i)])]
                /\ wpc' = [wpc EXCEPT ![w] = "send"]
                /\ UNCHANGED exit
    /\ UNCHANGED <<repo, nthr, work, bad, q, lock, wgrp, ntx, chan, rpc,
                   nspawned, njoin, cpc, cur, received, db, out, regvars, pops,
                   anavars, xvars>>

\* The next item of the group: pkgrepo_contents(&i.repo, &i.pkg)? and the
\* PkgContentsResult; on Err, eprintln! and std::process::exit(1).
WFetch(w) ==
    /\ exit = "running" /\ wpc[w] = "fetch"
    /\ LET i == wgrp[w][Len(wres[w]) + 1]
       IN  IF i = bad
           THEN /\ exit' = "killed"
                /\ UNCHANGED <<wres, wpc>>
           ELSE /\ wres' = [wres EXCEPT ![w] =
                               Append(@, [pkg |-> i, contents |-> Contents(repo, i)])]
                /\ wpc' = [wpc EXCEPT ![w] =
                              IF Len(wres[w]) + 1 = Len(wgrp[w]) THEN "send" ELSE "fetch"]
                /\ UNCHANGED exit
    /\ UNCHANGED <<repo, nthr, work, bad, q, lock, wgrp, ntx, chan, rpc,
                   nspawned, njoin, cpc, cur, received, db, out, regvars, pops,
                   anavars, xvars>>

\* tx.send(r) on a channel with a buffer: the sender does not wait.
WSend_async(w) ==
    /\ exit = "running" /\ wpc[w] = "send"
    /\ chan' = chan \cup {[from |-> w, batch |-> wres[w]]}
    /\ wpc' = [wpc EXCEPT ![w] = "lock"]
    /\ UNCHANGED <<repo, nthr, work, bad, q, lock, wgrp, wres, ntx, rpc,
                   nspawned, njoin, cpc, cur, received, exit, db, out, regvars, pops,
                   anavars, xvars>>

\* tx.send(r) on the zero-capacity channel: the sender waits with its
\* packet until the receiver has taken it.
WSend(w) ==
    /\ exit = "running" /\ wpc[w] = "send"
    /\ chan' = chan \cup {[from |-> w, batch |-> wres[w]]}
    /\ wpc' = [wpc EXCEPT ![w] = "blocked"]
    /\ UNCHANGED <<repo, nthr, work, bad, q, lock, wgrp, wres, ntx, rpc,
                   nspawned, njoin, cpc, cur, received, exit, db, out, regvars, pops,
                   anavars, xvars>>

\* The end of the worker's closure: its clone of tx is dropped.
WExit(w) ==
    /\ exit = "running" /\ wpc[w] = "exit"
    /\ ntx' = ntx - 1
    /\ wpc' = [wpc EXCEPT ![w] = "done"]
    /\ UNCHANGED <<repo, nthr, work, bad, q, lock, wgrp, wres, chan, rpc,
                   nspawned, njoin, cpc, cur, received, exit, db, out, regvars, pops,
                   anavars, xvars>>

\* ---- the main thread

\* rx.recv() is Ok(r): the packet of a waiting sender is taken, and that
\* sender's send returns.
Recv ==
    /\ exit = "running" /\ cpc = "recv"
    /\ \E m \in chan :
          /\ chan' = chan \ {m}
          /\ cur' = m.batch
          /\ received' = Append(received, m.batch)
          /\ wpc' = [wpc EXCEPT ![m.from] = IF @ = "blocked" THEN "lock" ELSE @]
    /\ cpc' = "ingest"
    /\ UNCHANGED <<repo, nthr, work, bad, q, lock, wgrp, wres, ntx, rpc,
                   nspawned, njoin, exit, db, out, regvars, pops,
                   anavars, xvars>>

\* rx.recv() is Err: the while let loop ends.
RecvClosed ==
    /\ exit = "running" /\ cpc = "recv"
    /\ Closed
    /\ cpc' = "closed"
    /\ UNCHANGED <<repo, nthr, work, bad, q, lock, wpc, wgrp, wres, ntx, chan,
                   rpc, nspawned, njoin, cur, received, exit, db, out, regvars, pops,
                   anavars, xvars>>

\* for a in &p.contents { ... }: the file and link actions under
\* usr/share/man/ are inserted; a path under usr/man, or a conflict, bails.
RECURSIVE IngestActions(_, _, _)
IngestActions(records, acts, name) ==
    IF acts = <<>> THEN [ok |-> TRUE, records |-> records]
    ELSE LET a == Head(acts)
         IN  IF a.kind = "other" THEN IngestActions(records, Tail(acts), name)
             ELSE IF a.cls = "weird" THEN [ok |-> FALSE, records |-> records]
             ELSE IF a.cls = "nonman" THEN IngestActions(records, Tail(acts), name)
             ELSE CHOOSE res \in
                      { IF r.ok THEN IngestActions(r.records, Tail(acts), name)
                        ELSE r :
                        r \in {insert(records, a.kind = "link", a.sect, a.page, name)} } :
                      TRUE

\* An ingestion that keeps the record it has when an insert conflicts.
RECURSIVE IngestActions_firstwins(_, _, _)
IngestActions_firstwins(records, acts, name) ==
    IF acts = <<>> THEN [ok |-> TRUE, records |-> records]
    ELSE LET a == Head(acts)
         IN  IF a.kind = "other" \/ a.cls # "man"
             THEN IngestActions_firstwins(records, Tail(acts), name)
             ELSE CHOOSE res \in
                      { IngestActions_firstwins(r.records, Tail(acts), name) :
                        r \in {insert(records, a.kind = "link", a.sect, a.page, name)} } :
                      TRUE

IngestBatch_firstwins(records, r) ==
    IF Len(r) # 1 THEN [ok |-> FALSE, records |-> records]
    ELSE IngestActions_firstwins(records, r[1].contents, PkgName(r[1].pkg))

\* The body of the while let loop for the batch r.
IngestBatch(records, r) ==
    IF Len(r) # 1 THEN [ok |-> FALSE, records |-> records]
    ELSE IngestActions(records, r[1].contents, PkgName(r[1].pkg))

Ingest ==
    /\ exit = "running" /\ cpc = "ingest"
    /\ LET r == IngestBatch(db, cur)
       IN  /\ db' = r.records
           /\ cpc' = IF r.ok THEN "recv" ELSE "bailed"
           /\ exit' = IF r.ok THEN exit ELSE "err"
    /\ UNCHANGED <<repo, nthr, work, bad, q, lock, wpc, wgrp, wres, ntx, chan,
                   rpc, nspawned, njoin, cur, received, out, regvars, pops,
                   anavars, xvars>>

\* for rec in db.records { println!(...) }
Persist ==
    /\ exit = "running" /\ cpc = "closed"
    /\ out' = persist(db)
    /\ cpc' = "persisted"
    /\ UNCHANGED <<repo, nthr, work, bad, q, lock, wpc, wgrp, wres, ntx, chan,
                   rpc, nspawned, njoin, cur, received, exit, db, regvars, pops,
                   anavars, xvars>>

\* Ok(()) at the end of main: the process ends, whatever its threads do.
MainReturn ==
    /\ exit = "running" /\ cpc = "persisted"
    /\ cpc' = "returned"
    /\ exit' = "ok"
    /\ UNCHANGED <<repo, nthr, work, bad, q, lock, wpc, wgrp, wres, ntx, chan,
                   rpc, nspawned, njoin, cur, received, db, out, regvars, pops,
                   anavars, xvars>>

Next ==
    \/ RSpawn
    \/ RDrop
    \/ RJoin
    \/ \E w \in Workers : WLock(w)
    \/ \E w \in Workers : WPop(w)
    \/ \E w \in Workers : WFetch(w)
    \/ \E w \in Workers : WSend(w)
    \/ \E w \in Workers : WExit(w)
    \/ Recv
    \/ RecvClosed
    \/ Ingest
    \/ Persist
    \/ MainReturn

Spec == InitFetch /\ [][Next]_vars

\* The runs of mkdb with no collaborator failure and a consumer that keeps
\* receiving (one item per group, as main appends them, and a repository
\* without conflicting pages), under a scheduler that runs some thread
\* whenever a thread can take a step. (A thread waiting for the mutex, the
\* channel or a join can take no step; fairness to each single thread would
\* be a stronger assumption.)
InitBenign ==
    /\ InitFetch
    /\ bad = 0 /\ repo = "clean" /\ \A g \in 1..Len(work) : Len(work[g]) = 1

FairSpec == InitBenign /\ [][Next]_vars /\ WF_vars(Next)

----------------------------------------------------------------------------
(* The analysis commands: simulate (load, transform, report the obscured   *)
(* pages) and conflicts (load, report the pages that several of the        *)
(* sections 4*, 5*, 7* hold).                                              *)

\* The strings of a finite set, ascending (the key order of a BTreeMap).
SortStrs(S) ==
    [k \in 1..Cardinality(S) |->
        CHOOSE p \in S : Cardinality({o \in S : CmpStr(o, p) = -1}) = k - 1]

\* The report loop of simulate: for each record of the loaded registry, in
\* order, the record lookup finds at its key in the derived registry; the
\* page is printed when that record has a provenance.
simulate(records, derived) ==
    LET seen(r) == LET c == lookup(derived, r.sect, r.page)
                   IN  c # None /\ c[1].orig_sect # None
        hits == SelectSeq(records, seen)
    IN  [i \in 1..Len(hits) |-> [page |-> hits[i].page, sect |-> hits[i].sect]]

\* match r.sect.chars().next().unwrap() { '4' | '5' | '7' => ... }
Lead457(sect) == sect # <<>> /\ Head(sect) \in {52, 53, 55}

\* The Vec the conflicts map holds for a page after the loop over the
\* records: each section of the families pushed when first met.
SectsOf(records, page) ==
    LET first == {i \in 1..Len(records) :
                     /\ records[i].page = page
                     /\ Lead457(records[i].sect)
                     /\ ~ \E j \in 1..(i - 1) :
                            /\ records[j].page = page
                            /\ records[j].sect = records[i].sect}
        order == Items(first)
    IN  [k \in 1..Len(order) |-> records[order[k]].sect]

\* The conflicts command after load: panics on a record whose section is
\* empty (before anything is printed), else one entry per page whose Vec
\* has two sections or more, in the order of the page names.
conflicts(records) ==
    IF \E i \in 1..Len(records) : records[i].sect = sEmpty
    THEN [ok |-> FALSE, lines |-> <<>>]
    ELSE LET keys == {records[i].page : i \in {j \in 1..Len(records) :
                                                  Lead457(records[j].sect)}}
             shown == SortStrs({p \in keys : Len(SectsOf(records, p)) >= 2})
         IN  [ok |-> TRUE,
              lines |-> [k \in 1..Len(shown) |->
                            [page |-> shown[k],
                             sects |-> SectsOf(records, shown[k])]]]

\* The rows the analysed database.txt is written from: the rows of the
\* file format and a second record at a key of the families.
AnaLines == RowLines \cup { MkLine(kL, s4FS, pCp, oB) }

InitAna ==
    /\ \E n \in 0..MaxAnaRows : src \in [1..n -> AnaLines]
    /\ \E eol \in Eols : file = Render(src, eol)
    /\ phase = "open"
    /\ db = <<>>
    /\ newdb = <<>>
    /\ out = <<>>
    /\ last = NoOp
    /\ ninserts = 0
    /\ loaded = FALSE
    /\ FetchIdle
    /\ AnaIdle
    /\ XIdle

\* let newdb = db.transform(); (of the loaded registry)
AnaTransform == loaded /\ RegTransform

\* transform applied again, to the registry it derived last.
AnaRetransform ==
    /\ phase = "transformed" /\ Len(chain) < 2
    /\ LET r == transform(IF chain = <<>> THEN newdb ELSE chain[Len(chain)])
       IN  /\ chain' = IF r.ok THEN Append(chain, r.records) ELSE chain
           /\ phase' = IF r.ok THEN "transformed" ELSE "panicked"
           /\ last' = [op |-> "transform", ok |-> r.ok, arg |-> <<>>]
    /\ UNCHANGED <<src, file, db, newdb, out, ninserts, loaded, obscured,
                   report, fetchvars, xvars>>

\* for r in db.records { if let Some(conflict) = newdb.lookup(..) {..} }
AnaSimulate ==
    /\ phase = "transformed" /\ chain = <<>>
    /\ obscured' = simulate(db, newdb)
    /\ phase' = "simulated"
    /\ last' = [op |-> "simulate", ok |-> TRUE, arg |-> <<>>]
    /\ UNCHANGED <<src, file, db, newdb, out, ninserts, loaded, chain,
                   report, fetchvars, xvars>>

\* The two loops of the conflicts command.
AnaConflicts ==
    /\ phase = "open" /\ loaded
    /\ LET r == conflicts(db)
       IN  /\ report' = r.lines
           /\ phase' = IF r.ok THEN "reported" ELSE "panicked"
           /\ last' = [op |-> "conflicts", ok |-> r.ok, arg |-> <<>>]
    /\ UNCHANGED <<src, file, db, newdb, out, ninserts, loaded, chain,
                   obscured, fetchvars, xvars>>

NextAna ==
    \/ RegLoad
    \/ AnaTransform
    \/ AnaRetransform
    \/ AnaSimulate
    \/ AnaConflicts

SpecAna == InitAna /\ [][NextAna]_vars

----------------------------------------------------------------------------
(* The audit command (kinds): for every file record of the loaded registry *)
(* the document is read, told mdoc from roff, scanned by find_xrefs line   *)
(* by line, and its cross-references are looked up in the registry.        *)

fB == <<92, 102, 66>>       \* \fB
fR == <<92, 102, 82>>       \* \fR
fI == <<92, 102, 73>>       \* \fI
sTHWHOIS == <<46, 84, 72, 32, 87, 72, 79, 73, 83>>              \* .TH WHOIS
sTHHOSTS == <<46, 84, 72, 32, 72, 79, 83, 84, 83, 95, 65, 67, 67, 69, 83, 83>>
                                                                \* .TH HOSTS_ACCESS
sTH == <<46, 84, 72>>       \* .TH
sCopyright == <<67, 111, 112, 121, 114, 105, 103, 104, 116>>    \* Copyright
sComment == <<46, 92, 34>>  \* .\"
sTe == <<39, 92, 34, 32, 116, 101>>     \* '\" te
sT == <<39, 92, 34, 32, 116>>           \* '\" t
sQ == <<39, 92, 34>>                    \* '\"
sTab == <<46, 92, 34, 32, 45, 42, 45, 32, 116, 97, 98, 45, 119, 105, 100,
          116, 104, 58, 32, 52, 32, 45, 42, 45>>    \* .\" -*- tab-width: 4 -*-
sNroff == <<46, 92, 34, 32, 45, 42, 45, 32, 110, 114, 111, 102, 102, 32,
            45, 42, 45>>                            \* .\" -*- nroff -*-
sOs == <<46, 79, 115>>                              \* .Os
sOsIllumos == <<46, 79, 115, 32, 105, 108, 108, 117, 109, 111, 115>>
                                                    \* .Os illumos
sDot == <<46>>              \* .

\* str::starts_with and str::contains
StartsWith(l, pre) == Len(pre) <= Len(l) /\ SubSeq(l, 1, Len(pre)) = pre
StrContains(l, sub) ==
    \E i \in 1..(Len(l) - Len(sub) + 1) : SubSeq(l, i, i + Len(sub) - 1) = sub

\* str::to_uppercase, on ASCII
to_uppercase(t) ==
    [i \in 1..Len(t) |-> IF t[i] >= 97 /\ t[i] <= 122 THEN t[i] - 32 ELSE t[i]]

\* [a-zA-Z_0-9+.-], [0-9] and [^\[)]
PageChar(c) ==
    \/ (c >= 97 /\ c <= 122) \/ (c >= 65 /\ c <= 90) \/ (c >= 48 /\ c <= 57)
    \/ c \in {95, 43, 46, 45}
Digit(c) == c >= 48 /\ c <= 57
SectChar(c) == c \notin {91, 41}

\* The last index of the longest run, from index j of l, of page characters
\* and of section characters (j - 1: the run is empty).
PageEnd(l, j) ==
    Min({k \in j..Len(l) : ~PageChar(l[k])} \cup {Len(l) + 1}) - 1
SectEnd(l, j) ==
    Min({k \in j..Len(l) : ~SectChar(l[k])} \cup {Len(l) + 1}) - 1

At(l, i, pre) ==
    i + Len(pre) - 1 <= Len(l) /\ SubSeq(l, i, i + Len(pre) - 1) = pre

\* A match of a markup shape starting at index i of l: the opening escapes,
\* the page, the closing escapes, and the section token in parentheses.
\* Neither repetition can give back characters: the page is followed by a
\* backslash, the token by ")".
MatchAt(l, i, open, close) ==
    LET p1 == i + Len(open)
        p2 == PageEnd(l, p1)
        par == p2 + 1 + Len(close)
        s2 == SectEnd(l, par + 2)
    IN  IF /\ At(l, i, open)
           /\ p2 >= p1
           /\ At(l, p2 + 1, close)
           /\ par + 1 <= Len(l)
           /\ l[par] = 40
           /\ Digit(l[par + 1])
           /\ s2 + 1 <= Len(l)
           /\ l[s2 + 1] = 41
        THEN [ok |-> TRUE, page |-> SubSeq(l, p1, p2),
              sect |-> SubSeq(l, par + 1, s2), end |-> s2 + 1]
        ELSE [ok |-> FALSE, page |-> <<>>, sect |-> <<>>, end |-> i]

\* Regex::captures_iter: the matches from index i on, leftmost first, none
\* overlapping another.
RECURSIVE captures_iter(_, _, _, _)
captures_iter(l, i, open, close) ==
    IF i > Len(l) THEN <<>>
    ELSE LET m == MatchAt(l, i, open, close)
         IN  IF m.ok
             THEN <<[page |-> m.page, sect |-> m.sect]>>
                      \o captures_iter(l, m.end + 1, open, close)
             ELSE captures_iter(l, i + 1, open, close)

\* The candidates of a line: the matches of RE2, then the matches of RE.
Candidates(l) ==
    captures_iter(l, 1, fB \o fB, fR \o fR) \o captures_iter(l, 1, fB, fR)

\* The filter with the upper-case test before the italic test.
Outcome_case_first(sect) ==
    IF sect # to_uppercase(sect) THEN "diagnosed"
    ELSE IF StrContains(sect, fI) THEN "dropped"
    ELSE "accepted"

\* What the two tests in the loops of find_xrefs_line do with a candidate.
Outcome(sect) ==
    IF StrContains(sect, fI) THEN "dropped"
    ELSE IF sect # to_uppercase(sect) THEN "diagnosed"
    ELSE "accepted"

\* find_xrefs_line: the accepted (sect, page) pairs and the diagnostics
\* written to stderr.
find_xrefs_line(l) ==
    LET acc == SelectSeq(Candidates(l), LAMBDA c : Outcome(c.sect) = "accepted")
        dia == SelectSeq(Candidates(l), LAMBDA c : Outcome(c.sect) = "diagnosed")
    IN  [out |-> [k \in 1..Len(acc) |-> <<acc[k].sect, acc[k].page>>],
         diags |-> [k \in 1..Len(dia) |-> [sect |-> dia[k].sect, line |-> l]]]

\* The lines that take State::Rest to State::Copyright.
Leader(l) ==
    \/ l \in {sTe, sComment, sT, sQ, sTab, sNroff}
    \/ (StartsWith(l, sComment) /\ StrContains(l, sCopyright))

\* One turn of the loop of find_xrefs with a State that may go back: a
\* comment line takes Content to Copyright.
find_xrefs_turn_back(s, l) ==
    IF s = "Rest"
    THEN IF StartsWith(l, sTHWHOIS) \/ StartsWith(l, sTHHOSTS)
         THEN [st |-> "Content", bail |-> FALSE, scan |-> FALSE]
         ELSE IF Leader(l)
              THEN [st |-> "Copyright", bail |-> FALSE, scan |-> FALSE]
              ELSE [st |-> s, bail |-> TRUE, scan |-> FALSE]
    ELSE IF s = "Copyright"
    THEN IF StartsWith(l, sComment) \/ l = <<>>
         THEN [st |-> s, bail |-> FALSE, scan |-> FALSE]
         ELSE IF StartsWith(l, sTH)
              THEN [st |-> "Content", bail |-> FALSE, scan |-> FALSE]
              ELSE [st |-> s, bail |-> TRUE, scan |-> FALSE]
    ELSE IF StartsWith(l, sComment)
         THEN [st |-> "Copyright", bail |-> FALSE, scan |-> FALSE]
         ELSE IF StartsWith(l, sDot)
              THEN [st |-> s, bail |-> FALSE, scan |-> FALSE]
              ELSE [st |-> s, bail |-> FALSE, scan |-> TRUE]

\* One turn of the loop of find_xrefs on line l in State s: the next State,
\* whether the scan bails, whether the line is given to find_xrefs_line.
find_xrefs_turn(s, l) ==
    IF s = "Rest"
    THEN IF StartsWith(l, sTHWHOIS) \/ StartsWith(l, sTHHOSTS)
         THEN [st |-> "Content", bail |-> FALSE, scan |-> FALSE]
         ELSE IF Leader(l)
              THEN [st |-> "Copyright", bail |-> FALSE, scan |-> FALSE]
              ELSE [st |-> s, bail |-> TRUE, scan |-> FALSE]
    ELSE IF s = "Copyright"
    THEN IF StartsWith(l, sComment) \/ l = <<>>
         THEN [st |-> s, bail |-> FALSE, scan |-> FALSE]
         ELSE IF StartsWith(l, sTH)
              THEN [st |-> "Content", bail |-> FALSE, scan |-> FALSE]
              ELSE [st |-> s, bail |-> TRUE, scan |-> FALSE]
    ELSE IF StartsWith(l, sDot)
         THEN [st |-> s, bail |-> FALSE, scan |-> FALSE]
         ELSE [st |-> s, bail |-> FALSE, scan |-> TRUE]

\* The lines the audited documents are written from.
lTe == sTe
lCopyright == <<46, 92, 34, 32, 67, 111, 112, 121, 114, 105, 103, 104, 116>>
                                        \* .\" Copyright
lWhois == <<46, 84, 72, 32, 87, 72, 79, 73, 83, 32, 49>>    \* .TH WHOIS 1
lTitle == <<46, 84, 72, 32, 76, 83, 32, 49, 77>>            \* .TH LS 1M
lBlank == <<>>
lBoth == <<92, 102, 66, 99, 112, 92, 102, 82, 40, 49, 41, 32, 92, 102, 66,
           92, 102, 66, 108, 115, 92, 102, 82, 92, 102, 82, 40, 49, 77, 41>>
                                        \* \fBcp\fR(1) \fB\fBls\fR\fR(1M)
lMixed == <<92, 102, 66, 108, 115, 92, 102, 82, 40, 49, 109, 41, 32, 92,
            102, 66, 102, 92, 102, 82, 40, 51, 92, 102, 73, 120, 92, 102,
            82, 41, 32, 92, 102, 66, 99, 112, 92, 102, 82, 40, 49, 41>>
                        \* \fBls\fR(1m) \fBf\fR(3\fIx\fR) \fBcp\fR(1)
lOs == sOs

XLines == {lTe, lCopyright, lWhois, lTitle, lBlank, lBoth, lMixed, lOs}

\* The documents after the first: one that scans, one that bails.
FollowDocs == { <<lWhois, lBoth>>, <<lTitle>> }

\* The registry the audit loads: two file records and an alias.
AuditDb ==
    <<Record(FALSE, s1M, pLs, oA, None), Record(FALSE, s3C, pCp, oA, None),
      Record(TRUE, s8, pLs, oB, None)>>

InitKinds ==
    /\ db = AuditDb
    /\ \E n \in 0..MaxLines : \E d \in [1..n -> XLines] : \E e \in FollowDocs :
          docs = <<d, e, <<>>>>
    /\ kpc = "next"
    /\ di = 0 /\ li = 0 /\ st = "Rest" /\ xout = <<>> /\ entered = 0
    /\ diags = <<>> /\ printed = <<>>
    /\ src = <<>> /\ file = <<>> /\ phase = "kinds" /\ newdb = <<>>
    /\ out = <<>> /\ last = NoOp /\ ninserts = 0 /\ loaded = TRUE
    /\ FetchIdle
    /\ AnaIdle

\* s.lines().any(|l| l == ".Os" || l.starts_with(".Os illumos"))
IsMdoc(d) ==
    \E k \in 1..Len(d) : d[k] = sOs \/ StartsWith(d[k], sOsIllumos)

\* The head of the loop over the records: the end of the command, an alias
\* skipped, an mdoc document announced and skipped, or a roff document
\* announced and its scan begun.
KNext ==
    /\ kpc = "next"
    /\ di' = di + 1
    /\ IF di + 1 > Len(db)
       THEN kpc' = "done" /\ UNCHANGED <<printed, li, st, xout, entered>>
       ELSE IF db[di + 1].link
       THEN UNCHANGED <<kpc, printed, li, st, xout, entered>>
       ELSE IF IsMdoc(docs[di + 1])
       THEN /\ printed' = Append(printed,
                [kind |-> "mdoc", page |-> db[di + 1].page, sect |-> db[di + 1].sect])
            /\ UNCHANGED <<kpc, li, st, xout, entered>>
       ELSE /\ printed' = Append(printed,
                [kind |-> "roff", page |-> db[di + 1].page, sect |-> db[di + 1].sect])
            /\ kpc' = "scan" /\ li' = 1 /\ st' = "Rest" /\ xout' = <<>>
            /\ entered' = 0
    /\ UNCHANGED <<docs, diags, db, out, regvars, fetchvars, anavars>>

\* A scan whose failure ends the document only: the loop goes on.
XLine_lenient ==
    /\ kpc = "scan" /\ li <= Len(docs[di])
    /\ LET l == docs[di][li]
           r == find_xrefs_turn(st, l)
           x == IF r.scan THEN find_xrefs_line(l)
                ELSE [out |-> <<>>, diags |-> <<>>]
       IN  IF r.bail
           THEN /\ kpc' = "next" /\ xout' = <<>>
                /\ UNCHANGED <<li, st, entered, diags>>
           ELSE /\ li' = li + 1 /\ st' = r.st
                /\ xout' = xout \o x.out
                /\ diags' = diags \o x.diags
                /\ entered' = IF st # "Content" /\ r.st = "Content"
                              THEN li ELSE entered
                /\ UNCHANGED kpc
    /\ UNCHANGED <<docs, di, printed, db, out, regvars, fetchvars, anavars>>

\* One turn of the loop of find_xrefs; bail! makes find_xrefs return Err,
\* which main returns (the ? after with_context): the command ends.
XLine ==
    /\ kpc = "scan" /\ li <= Len(docs[di])
    /\ LET l == docs[di][li]
           r == find_xrefs_turn(st, l)
           x == IF r.scan THEN find_xrefs_line(l)
                ELSE [out |-> <<>>, diags |-> <<>>]
       IN  IF r.bail
           THEN /\ kpc' = "failed" /\ xout' = <<>>
                /\ UNCHANGED <<li, st, entered, diags>>
           ELSE /\ li' = li + 1 /\ st' = r.st
                /\ xout' = xout \o x.out
                /\ diags' = diags \o x.diags
                /\ entered' = IF st # "Content" /\ r.st = "Content"
                              THEN li ELSE entered
                /\ UNCHANGED kpc
    /\ UNCHANGED <<docs, di, printed, db, out, regvars, fetchvars, anavars>>

\* The end of the input: find_xrefs returns Ok(out), and the audit looks
\* every cross-reference up in the registry (MISSING goes to stderr, "->"
\* to stdout).
XEnd ==
    /\ kpc = "scan" /\ li > Len(docs[di])
    /\ printed' = printed \o
          [k \in 1..Len(xout) |->
              [kind |-> IF lookup(db, xout[k][1], xout[k][2]) = None
                        THEN "MISSING" ELSE "->",
               page |-> xout[k][2], sect |-> xout[k][1]]]
    /\ kpc' = "next"
    /\ UNCHANGED <<docs, di, li, st, xout, entered, diags, db, out, regvars,
                   fetchvars, anavars>>

NextKinds == KNext \/ XLine \/ XEnd

SpecKinds == InitKinds /\ [][NextKinds]_vars

----------------------------------------------------------------------------
(* Properties of the fetcher and of mkdb.                                  *)

\* The packages of a batch, in order: the group it was fetched for.
GroupOf(batch) == [i \in 1..Len(batch) |-> batch[i].pkg]

\* The consumer has observed the channel as closed.
SeenClosed == cpc \in {"closed", "persisted", "returned"}

AllWorkersDone == \A w \in Workers : wpc[w] = "done"

\* C1: when the consumer observes the channel as closed it has received
\* exactly one batch for each appended group: as many batches as groups,
\* none twice and none lost.
C1_EachGroupOnce ==
    SeenClosed =>
        /\ Len(received) = Len(work)
        /\ \A g \in 1..Len(work) :
              Cardinality({i \in 1..Len(received) :
                              GroupOf(received[i]) = work[g]}) = 1

\* Two workers; the group at the bottom of the stack was received first.
C1_Witness ==
    /\ cpc = "closed" /\ nthr >= 2 /\ Len(received) >= 2
    /\ GroupOf(received[1]) = work[1]

\* The result batches produced by workers and not yet received: those a
\* worker is about to send, and those of senders waiting in the rendezvous.
Outstanding ==
    Cardinality({w \in Workers : wpc[w] = "send"}) + Cardinality(chan)

\* C2 as claimed: at most one result batch is produced and not yet received.
C2_AtMostOne == Outstanding <= 1

\* C2, amended: the result batches produced and not yet received are at most
\* as many as the workers (one per worker waiting in send).
C2_AtMostPerWorker == Outstanding <= nthr

\* Every one of two or more workers holds a batch the consumer has not taken.
C2_Witness == nthr >= 2 /\ Cardinality(chan) = nthr

\* C3: when the content listing fails for an item of a group, the process is
\* terminated from the worker (no thread takes another step); no batch of
\* that group is ever received, the consumer never observes the channel as
\* closed, and the registry is never persisted.
C3_NoPartialCorpus ==
    /\ bad # 0 =>
          /\ ~SeenClosed
          /\ out = <<>>
          /\ exit # "ok"
          /\ \A i \in 1..Len(received) : \A j \in 1..Len(received[i]) :
                received[i][j].pkg # bad
    /\ exit = "killed" =>
          /\ \E w \in Workers :
                wpc[w] = "fetch" /\ wgrp[w][Len(wres[w]) + 1] = bad
          /\ ~ENABLED Next

\* The process was terminated by one of two workers after the records of
\* another package had been inserted into the registry.
C3_Witness == exit = "killed" /\ nthr >= 2 /\ db # <<>>

\* C4 as claimed: under fair scheduling every worker exits, the coordinator
\* joins them all and the consumer observes the channel as closed.
C4_AllJoined == <>(AllWorkersDone /\ rpc = "done" /\ SeenClosed)

\* C4, amended: under fair scheduling every worker exits and the consumer
\* observes the channel as closed, the coordinator having dropped its send
\* handle; the coordinator joins them all unless the process has ended first
\* (main returns once the registry is persisted).
C4_Terminates ==
    <>(/\ AllWorkersDone
       /\ SeenClosed
       /\ rpc \in {"join", "done"}
       /\ (rpc = "done" \/ exit = "ok"))

\* The channel closed after two workers delivered two batches, and the
\* coordinator joined them.
C4_Witness ==
    /\ nthr >= 2 /\ Len(received) >= 2
    /\ AllWorkersDone /\ rpc = "done" /\ SeenClosed

----------------------------------------------------------------------------
(* Properties of the registry.                                             *)

\* No two records at the same (section, page).
Unique(records) ==
    \A i, j \in 1..Len(records) :
        (records[i].sect = records[j].sect /\ records[i].page = records[j].page)
            => i = j

HasKey(records, sect, page) ==
    \E i \in 1..Len(records) : records[i].sect = sect /\ records[i].page = page

\* Ascending (section, page) order by string comparison.
KeyLeq(a, b) ==
    \/ CmpStr(a.sect, b.sect) = -1
    \/ (CmpStr(a.sect, b.sect) = 0 /\ CmpStr(a.page, b.page) # 1)

Ascending(records) ==
    \A i \in 1..(Len(records) - 1) : KeyLeq(records[i], records[i + 1])

\* C5 as claimed: no registry, built by insert, loaded or derived, holds two
\* records with the same (section, page).
C5_AlwaysUnique == Unique(db) /\ Unique(newdb)

\* A page in section 1M and a page of the same name in section 8.
Clash1M8(records) ==
    \E i, j \in 1..Len(records) :
        /\ records[i].sect = s1M /\ records[j].sect = s8
        /\ records[i].page = records[j].page

\* C5, amended: a registry built from empty by insert calls never holds two
\* records with the same (section, page), and the registry derived from a
\* registry with unique keys has unique keys unless the original holds a
\* page both in 1M and in 8.
C5_UniqueKeys ==
    /\ ~loaded => Unique(db)
    /\ (phase = "transformed" /\ Unique(db) /\ ~Clash1M8(db)) => Unique(newdb)

\* A registry of two inserted records was transformed, after a load was
\* never done.
C5_Witness ==
    /\ ~loaded /\ phase = "transformed" /\ Len(db) >= 2 /\ Len(newdb) = Len(db)
    /\ newdb[1].orig_sect # None

\* C6: an insert whose (section, page) is already in the registry fails and
\* leaves the records and their order as they were, whatever its owner or
\* alias flag.
C6_ConflictKeepsRegistry ==
    [][(ninserts' = ninserts + 1 /\ HasKey(db, last'.arg[2], last'.arg[3]))
          => (~last'.ok /\ db' = db /\ phase' = "failed")]_vars

\* A rejected insert whose owner and alias flag differ from those of the
\* record it conflicts with.
C6_Witness ==
    /\ last.op = "insert" /\ ~last.ok
    /\ \E i \in 1..Len(db) :
          /\ db[i].sect = last.arg[2] /\ db[i].page = last.arg[3]
          /\ db[i].pkg # last.arg[4] /\ db[i].link # last.arg[1]

\* C7: after every successful insert the records are in ascending (section,
\* page) order, and what is persisted after inserts is in that order.
C7_SortedAfterInsert ==
    /\ (last.op = "insert" /\ last.ok) => Ascending(db)
    /\ (phase = "persisted" /\ ninserts > 0) =>
          /\ load(out).ok
          /\ Len(load(out).records) = Len(db)
          /\ Ascending(load(out).records)

\* A successful insert into a registry loaded from a file that was not in
\* ascending order.
C7_Witness ==
    /\ last.op = "insert" /\ last.ok /\ loaded
    /\ ~Ascending(load(file).records)
    /\ Len(db) >= 3

\* A line with exactly four tab-separated fields, the first "l" or "f".
IsRow(line) ==
    /\ Cardinality({i \in 1..Len(line) : line[i] = TAB}) = 3
    /\ Len(line) >= 2 /\ line[2] = TAB /\ line[1] \in {108, 102}

\* C8: persisting the registry loaded from a well-formed text writes the rows
\* of that text, each with its four fields, in the order of its lines.
C8_RoundTrip ==
    (phase = "persisted" /\ loaded /\ ninserts = 0
        /\ \A i \in 1..Len(src) : IsRow(src[i]))
        => out = Render(src, <<LF>>)

\* A file of two rows that are not in ascending order, loaded and persisted.
C8_Witness ==
    /\ phase = "persisted" /\ loaded /\ ninserts = 0
    /\ Len(src) >= 2 /\ ~Ascending(db) /\ out # <<>>

\* C9: when a row of the input has not exactly four fields, or its kind is
\* not exactly l or f, load fails and yields no registry.
C9_LoadRejects ==
    (last.op = "load" /\ \E i \in 1..Len(src) : ~IsRow(src[i]))
        => (~last.ok /\ phase = "failed" /\ db = <<>> /\ ~loaded)

\* A load that failed on the second line, after a good first row.
C9_Witness ==
    /\ last.op = "load" /\ ~last.ok
    /\ Len(src) >= 2 /\ IsRow(src[1]) /\ ~IsRow(src[2])

\* A record the relocation rule leaves alone: section not 1M, first
\* character (if any) not 4, 5 or 7.
Unrelocated(r) ==
    /\ r.sect # s1M
    /\ (r.sect = <<>> \/ r.sect[1] \notin {52, 53, 55})

\* C10 as claimed: transform puts every such record, with the same fields and
\* no provenance, into the derived registry.
C10_Frame ==
    last.op = "transform" =>
        \A i \in 1..Len(db) :
            Unrelocated(db[i]) =>
                \E j \in 1..Len(newdb) :
                    newdb[j] = Record(db[i].link, db[i].sect, db[i].page,
                                      db[i].pkg, None)


----------------------------------------------------------------------------
(* Properties of the relocation applied repeatedly, of simulate and of     *)
(* conflicts.                                                              *)

\* The registry a loaded registry is taken to by k applications of
\* transform (k in 1..3), once that many were made.
Derived(k) == IF k = 1 THEN newdb ELSE chain[k - 1]
Applied == IF phase = "transformed" THEN 1 + Len(chain) ELSE 0

\* 4x -> 5x -> 7x -> 4x on a section string.
Rot(sect) ==
    <<CASE Head(sect) = 52 -> 53 [] Head(sect) = 53 -> 55 [] Head(sect) = 55 -> 52>>
        \o Tail(sect)

Holds(records, link, sect, page, pkg) ==
    \E j \in 1..Len(records) :
        /\ records[j].link = link /\ records[j].sect = sect
        /\ records[j].page = page /\ records[j].pkg = pkg

\* What the applications made so far did to record r of the loaded registry.
Cycled(r) ==
    /\ Applied >= 1 => Holds(Derived(1), r.link, Rot(r.sect), r.page, r.pkg)
    /\ Applied >= 2 => Holds(Derived(2), r.link, Rot(Rot(r.sect)), r.page, r.pkg)
    /\ Applied >= 3 => Holds(Derived(3), r.link, r.sect, r.page, r.pkg)

Stays8(r) ==
    \A k \in 1..Applied : Holds(Derived(k), r.link, s8, r.page, r.pkg)

\* The rotation on the registries transform does not panic on.
RotationWhereTotal ==
    (loaded /\ phase = "transformed") =>
        \A i \in 1..Len(db) :
            /\ Lead457(db[i].sect) => Cycled(db[i])
            /\ db[i].sect = s1M => Stays8(db[i])

\* C11: every application of transform to a registry holding a record with
\* a section 4x, 5x or 7x yields its rotated record (5x, 7x, 4x), the third
\* application its original section again; a 1M record is at 8 after the
\* first application and after each later one.
C11_ThreeCycle ==
    (loaded /\ last.op = "transform") =>
        \A i \in 1..Len(db) :
            /\ Lead457(db[i].sect) => (phase = "transformed" /\ Cycled(db[i]))
            /\ db[i].sect = s1M => (phase = "transformed" /\ Stays8(db[i]))

\* Three applications were made to a registry with a 4FS and a 1M record.
ThreeApplied ==
    /\ loaded /\ phase = "transformed" /\ Applied = 3
    /\ \E i, j \in 1..Len(db) : db[i].sect = s4FS /\ db[j].sect = s1M

\* The simulate command has ended: its report loop ran, or its transform
\* panicked.
SimulateEnded ==
    \/ phase = "simulated"
    \/ loaded /\ phase = "panicked" /\ last.op = "transform"

\* Record b sits where the relocation takes record a.
Collide(a, b) ==
    Lead457(a.sect) /\ b.sect = Rot(a.sect) /\ b.page = a.page

\* a's derived record is at b's key with a's section as provenance, and b
\* is reported.
Collision(a, b) ==
    /\ \E k \in 1..Len(newdb) :
          newdb[k] = Record(a.link, b.sect, b.page, a.pkg, Some(a.sect))
    /\ \E m \in 1..Len(obscured) :
          obscured[m] = [page |-> b.page, sect |-> b.sect]

\* The family collisions in the runs of simulate that reach the report loop.
CollisionWhereTotal ==
    phase = "simulated" =>
        \A i, j \in 1..Len(db) : Collide(db[i], db[j]) => Collision(db[i], db[j])

\* C12: when the loaded registry holds a at (4s,p) and b at (5s,p), or at
\* (5s,p) and (7s,p), or at (7s,p) and (4s,p), the simulate command derives
\* a's record at b's key with a's section as provenance and reports b's
\* page as obscured.
C12_FamilyCollision ==
    SimulateEnded =>
        \A i, j \in 1..Len(db) :
            Collide(db[i], db[j]) =>
                (phase = "simulated" /\ Collision(db[i], db[j]))

\* simulate reported the 5FS page a 4FS page of the same name moves onto.
CollisionReported ==
    /\ phase = "simulated"
    /\ \E i, j \in 1..Len(db) :
          db[i].sect = s4FS /\ db[j].sect = s5FS /\ Collide(db[i], db[j])
    /\ obscured # <<>>

\* The sections of the families 4*, 5*, 7* under which the loaded registry
\* holds page p.
Fam(p) ==
    {db[i].sect : i \in {j \in 1..Len(db) : db[j].page = p /\ Lead457(db[j].sect)}}

\* What conflicts is to print for the loaded registry: an entry for the
\* pages held under two or more sections of the families and for no other
\* page, one entry a page, each of its sections once.
ReportRule ==
    /\ \A i \in 1..Len(db) :
          Cardinality(Fam(db[i].page)) >= 2
            <=> \E k \in 1..Len(report) : report[k].page = db[i].page
    /\ \A k \in 1..Len(report) :
          /\ \E i \in 1..Len(db) : db[i].page = report[k].page
          /\ \A m \in 1..Len(report) : report[m].page = report[k].page => m = k
          /\ {report[k].sects[n] : n \in 1..Len(report[k].sects)}
                = Fam(report[k].page)
          /\ \A n, o \in 1..Len(report[k].sects) :
                report[k].sects[n] = report[k].sects[o] => n = o

\* The rule in the runs of conflicts that reach the printing loop.
ReportRuleWhereTotal == phase = "reported" => ReportRule

\* C13: after the conflicts command, a page is reported exactly when the
\* records with a section starting with 4, 5 or 7 hold it under two or more
\* distinct sections, with each such section listed once; a page under one
\* such section, or under other sections only, has no entry.
C13_ReportRule ==
    (loaded /\ last.op = "conflicts") => ReportRule

\* conflicts reported a page held by two records under 4FS and by one under
\* 5FS, and the registry holds another page that is not reported.
ConflictReported ==
    /\ phase = "reported" /\ Len(report) = 1 /\ Len(db) = 3
    /\ Len(report[1].sects) = 2
    /\ Cardinality({i \in 1..Len(db) : db[i].sect = s4FS}) = 2

\* The sections of every entry conflicts printed ascend.
SectsAscend ==
    \A k \in 1..Len(report) :
        \A n \in 1..(Len(report[k].sects) - 1) :
            CmpStr(report[k].sects[n], report[k].sects[n + 1]) = -1

\* The sections ascend when the loaded file was sorted by (section, page),
\* as mkdb writes it.
AscendWhenSorted == (phase = "reported" /\ Ascending(db)) => SectsAscend

\* C14: the sections conflicts prints for a page ascend, whatever the order
\* of the rows of the loaded file.
C14_SectionsSorted == (loaded /\ last.op = "conflicts") => SectsAscend

\* conflicts reported a page for a file that was sorted.
SortedReported == phase = "reported" /\ Ascending(db) /\ report # <<>>

\* simulate reported record r of the loaded registry.
Reported(r) ==
    \E m \in 1..Len(obscured) : obscured[m] = [page |-> r.page, sect |-> r.sect]

\* The derived registry holds at r's key a record with a provenance.
Occupied(r) ==
    \E k \in 1..Len(newdb) :
        /\ newdb[k].sect = r.sect /\ newdb[k].page = r.page
        /\ newdb[k].orig_sect # None

\* The report is exact when no two derived records share a key.
ObscuredWhenUnique ==
    (phase = "simulated" /\ Unique(newdb)) =>
        \A i \in 1..Len(db) : Reported(db[i]) <=> Occupied(db[i])

Obscured8 ==
    /\ phase = "simulated"
    /\ \E i \in 1..Len(db) : db[i].sect = s8 /\ Reported(db[i])

----------------------------------------------------------------------------
(* Properties of the workers' use of the stack.                            *)

\* Worker w popped a group at some time.
Popped(w) == \E i \in 1..Len(pops) : pops[i].w = w

\* Worker w found the stack empty on its first pop and left its loop.
Idle(w) == ~Popped(w) /\ wpc[w] \in {"exit", "done"}

\* C17: at most K workers ever pop a group, a worker that popped none never
\* sends, and once the result stream has closed at least N - K of the N
\* workers have found the stack empty on their first pop and left.
C17_IdleWorkers ==
    /\ Cardinality({w \in Workers : Popped(w)}) <= Len(work)
    /\ \A w \in Workers :
          (wpc[w] \in {"fetch", "send", "blocked"}
             \/ \E m \in chan : m.from = w) => Popped(w)
    /\ SeenClosed =>
          Cardinality({w \in Workers : Idle(w)}) >= nthr - Len(work)

\* Two workers and one group: the stream closed, one worker sent the batch,
\* the other found the stack empty on its first pop.
C17_Witness ==
    /\ nthr = 2 /\ Len(work) = 1 /\ SeenClosed /\ Len(received) = 1
    /\ Cardinality({w \in Workers : Idle(w)}) = 1

\* C19: the lock is held by a worker only between its lock and its pop: by
\* no worker that fetches, sends or waits in send; a worker at its pop is
\* the holder; and no group is popped twice.
C19_LockOnlyForPop ==
    /\ \A w \in Workers : lock = w <=> wpc[w] = "pop"
    /\ lock \in {0} \cup Workers
    /\ \A i, j \in 1..Len(pops) : pops[i].g = pops[j].g => i = j
    /\ Len(pops) + Len(q) = Len(work)

\* One worker fetches the group it popped while another holds the lock at
\* its pop, a group still on the stack.
C19_Witness ==
    /\ q # <<>> /\ Len(pops) = 1
    /\ \E v, w \in Workers : wpc[v] = "fetch" /\ wpc[w] = "pop" /\ lock = w

----------------------------------------------------------------------------
(* Properties of the scanner and of the audit.                             *)

Italic(sect) == StrContains(sect, fI)
Upper(sect) == sect = to_uppercase(sect)

\* The scan is in a document, at a line still to be read.
AtLine == kpc = "scan" /\ li <= Len(docs[di])

\* The line to be read is one find_xrefs gives to find_xrefs_line.
Scanning == AtLine /\ st = "Content" /\ ~StartsWith(docs[di][li], sDot)

\* C15: of the candidates of a scanned line, in their order, those with an
\* italic escape in the section token leave no trace, upper-case or not;
\* those without it whose token is not upper-case leave one diagnostic
\* each; the others are appended to the output; the scan goes on. So every
\* cross-reference of the output has an upper-case token without an italic
\* escape.
C15_FilterOrder ==
    /\ [][Scanning =>
            LET c == Candidates(docs[di][li])
                acc == SelectSeq(c, LAMBDA m : ~Italic(m.sect) /\ Upper(m.sect))
                dia == SelectSeq(c, LAMBDA m : ~Italic(m.sect) /\ ~Upper(m.sect))
            IN  /\ xout' = xout \o [k \in 1..Len(acc) |-> <<acc[k].sect, acc[k].page>>]
                /\ diags' = diags \o
                      [k \in 1..Len(dia) |->
                          [sect |-> dia[k].sect, line |-> docs[di][li]]]
                /\ kpc' = "scan" /\ li' = li + 1]_vars
    /\ [](\A k \in 1..Len(xout) : ~Italic(xout[k][1]) /\ Upper(xout[k][1]))

\* The line with a lower-case token, then an italic token, then a good
\* one was scanned: one diagnostic, and the last candidate in the output.
C15_Witness ==
    /\ kpc = "scan" /\ li > 1 /\ entered > 0 /\ entered < li - 1
    /\ docs[di][li - 1] = lMixed
    /\ Len(diags) = 1 /\ diags[1].sect = <<49, 109>>
    /\ xout # <<>> /\ xout[Len(xout)] = <<<<49>>, pCp>>

\* A line on which the scan is to fail: in Rest, none of the leader lines;
\* in Copyright, not blank, no comment, no title directive.
BadLine(s, l) ==
    \/ /\ s = "Rest"
       /\ ~StartsWith(l, sTHWHOIS) /\ ~StartsWith(l, sTHHOSTS) /\ ~Leader(l)
    \/ /\ s = "Copyright"
       /\ l # <<>> /\ ~StartsWith(l, sComment) /\ ~StartsWith(l, sTH)

\* C16: such a line makes the scan fail: no cross-reference of the document
\* is returned or printed, the audit command ends there, and nothing is
\* done after it (no later document is read).
C16_ParseFailureFatal ==
    /\ [][(AtLine /\ BadLine(st, docs[di][li])) =>
              (kpc' = "failed" /\ xout' = <<>> /\ printed' = printed)]_vars
    /\ [][kpc # "failed"]_vars

\* The first document failed in Copyright, on its third line; the second
\* document was never read.
C16_Witness ==
    kpc = "failed" /\ di = 1 /\ st = "Copyright" /\ li = 3 /\ Len(printed) = 1

\* The cross-references of lines a..b of document d, those that do not
\* begin with the directive marker, in line order.
RECURSIVE RefsOf(_, _, _)
RefsOf(d, a, b) ==
    IF a > b THEN <<>>
    ELSE (IF StartsWith(d[a], sDot) THEN <<>> ELSE find_xrefs_line(d[a]).out)
             \o RefsOf(d, a + 1, b)

\* C20: the scan is in Rest exactly until its first line is read; its State
\* goes from Rest to Copyright or Content, from Copyright to Content, and
\* never back; in Content it stays and does not fail; and its output is the
\* cross-references of the lines read in Content that do not begin with the
\* directive marker, in line order.
C20_ScannerStates ==
    /\ [](kpc = "scan" =>
            /\ st = "Rest" <=> li = 1
            /\ st = "Content" <=> entered > 0
            /\ xout = IF entered = 0 THEN <<>>
                      ELSE RefsOf(docs[di], entered + 1, li - 1))
    /\ [][(kpc = "scan" /\ kpc' = "scan" /\ di' = di) =>
            <<st, st'>> \in {<<"Rest", "Copyright">>, <<"Rest", "Content">>,
                             <<"Copyright", "Copyright">>,
                             <<"Copyright", "Content">>,
                             <<"Content", "Content">>}]_vars
    /\ [][(kpc = "scan" /\ st = "Content") => kpc' # "failed"]_vars

\* A document of three lines was read to its end through Rest and Content,
\* with the cross-references of its second and of its third line.
C20_Witness ==
    /\ kpc = "scan" /\ di = 1 /\ Len(docs[1]) = 3 /\ li = 4 /\ entered = 1
    /\ docs[1][2] = lBoth /\ docs[1][3] = lMixed
    /\ xout = <<<<s1M, pLs>>, <<<<49>>, pCp>>, <<<<49>>, pCp>>>>

----------------------------------------------------------------------------
(* Properties of the batches and of the ingestion.                         *)

\* Batch b is the result of group g: one result per item, in item order,
\* each with what pkgrepo_contents yields for the item.
ResultOf(b, g) ==
    /\ Len(b) = Len(g)
    /\ \A k \in 1..Len(g) :
          b[k] = [pkg |-> g[k], contents |-> Contents(repo, g[k])]

\* C21: every message the consumer received, and every message a sender
\* waits with, is the result of one popped group, whole and in item order;
\* no two received messages are for the same group.
C21_OneGroupPerMessage ==
    /\ \A i \in 1..Len(received) :
          \E j \in 1..Len(pops) : ResultOf(received[i], pops[j].g)
    /\ \A m \in chan :
          \E j \in 1..Len(pops) : pops[j].w = m.from /\ ResultOf(m.batch, pops[j].g)
    /\ \A i, j \in 1..Len(received) :
          (\E k \in 1..Len(received[i]), n \in 1..Len(received[j]) :
              received[i][k].pkg = received[j][n].pkg) => i = j

\* Two workers; the consumer received the two results of a group of two
\* items in one message.
C21_Witness ==
    /\ nthr = 2 /\ Len(work) = 1 /\ Len(received) = 1
    /\ Len(received[1]) = 2 /\ received[1][1].pkg = 1 /\ received[1][2].pkg = 2

\* The registry construction on the batches of the appended groups taken in
\* one fixed order (the order of the stack), up to the first that bails.
RECURSIVE IngestAll(_, _)
IngestAll(records, batches) ==
    IF batches = <<>> THEN [ok |-> TRUE, records |-> records]
    ELSE LET r == IngestBatch(records, Head(batches))
         IN  IF r.ok THEN IngestAll(r.records, Tail(batches)) ELSE r

InStackOrder ==
    IngestAll(<<>>,
        [i \in 1..Len(work) |->
            [k \in 1..Len(work[Len(work) + 1 - i]) |->
                [pkg |-> work[Len(work) + 1 - i][k],
                 contents |-> Contents(repo, work[Len(work) + 1 - i][k])]]])

=============================================================================
